---- MODULE Spec2Model ----
(***************************************************************************)
(* Model of src/tp.ipynb: the scraping pipeline WebScraper / S3Uploader /  *)
(* DataCollector.  The state machine follows DataCollector.collect_data    *)
(* statement by statement; the three helper methods are operators.  What   *)
(* the network answers (listing, rows, detail pages, image bytes, the      *)
(* storage put) is the input, drawn from small sets when it is requested.  *)
(* An exception is a result with raised = TRUE; a caller that has no       *)
(* try/except around the call passes it on.                                *)
(***************************************************************************)
EXTENDS Integers, Sequences, FiniteSets, TLC

\* ---------------------------------------------------------------- bounds
MaxRows   == 5      \* rows of the whole listing, over all tables
MaxLimit  == 2      \* largest value of the limit argument

None == "<None>"

\* ------------------------------------------------------------ text helpers
\* Strings are sequences of characters: Len, SubSeq and \o apply to them.
Char(s, i) == SubSeq(s, i, i)

Drop(s, n) == SubSeq(s, n + 1, Len(s))

\* str.startswith
StartsWith(s, p) == Len(s) >= Len(p) /\ SubSeq(s, 1, Len(p)) = p

\* s.find(c, from): the first index >= i at which one of the characters cs
\* stands, or 0
RECURSIVE FindAny(_, _, _)
FindAny(s, cs, i) ==
    IF i > Len(s) THEN 0
    ELSE IF Char(s, i) \in cs THEN i
    ELSE FindAny(s, cs, i + 1)

\* s.rfind(c): the last index at which c stands, or 0
RECURSIVE RFind(_, _, _)
RFind(s, c, i) ==
    IF i < 1 THEN 0
    ELSE IF Char(s, i) = c THEN i
    ELSE RFind(s, c, i - 1)

Whitespace == {" "}

RECURSIVE LStrip(_)
LStrip(s) ==
    IF Len(s) > 0 /\ Char(s, 1) \in Whitespace THEN LStrip(Drop(s, 1)) ELSE s

RECURSIVE RStrip(_)
RStrip(s) ==
    IF Len(s) > 0 /\ Char(s, Len(s)) \in Whitespace
    THEN RStrip(SubSeq(s, 1, Len(s) - 1)) ELSE s

\* get_text(strip=True) of an element holding one text node
Strip(s) == RStrip(LStrip(s))

Upper == <<"A", "B", "C", "D", "E", "F", "G", "H", "I", "J", "K", "L", "M",
           "N", "O", "P", "Q", "R", "S", "T", "U", "V", "W", "X", "Y", "Z">>

LowerLetters == "abcdefghijklmnopqrstuvwxyz"

LowerChar(c) ==
    IF \E k \in 1..Len(Upper) : Upper[k] = c
    THEN Char(LowerLetters, CHOOSE k \in 1..Len(Upper) : Upper[k] = c)
    ELSE c

\* str.lower()
RECURSIVE Lower(_)
Lower(s) ==
    IF Len(s) = 0 THEN "" ELSE LowerChar(Char(s, 1)) \o Lower(Drop(s, 1))

Digits == <<"0", "1", "2", "3", "4", "5", "6", "7", "8", "9">>

IsDigit(c) == \E k \in 1..Len(Digits) : Digits[k] = c

DigitVal(c) == (CHOOSE k \in 1..Len(Digits) : Digits[k] = c) - 1

\* int() of the run of digits of s that starts at index i, acc the value so far
RECURSIVE RunValue(_, _, _)
RunValue(s, i, acc) ==
    IF i <= Len(s) /\ IsDigit(Char(s, i))
    THEN RunValue(s, i + 1, acc * 10 + DigitVal(Char(s, i)))
    ELSE acc

NoMatch == 0 - 1

\* re.search(r"\d+", s) and int(match.group()): the value of the first run
\* of digits of s, NoMatch when s holds no digit
DigitRun(s) ==
    LET i == FindAny(s, {Digits[k] : k \in 1..Len(Digits)}, 1)
    IN  IF i = 0 THEN NoMatch ELSE RunValue(s, i, 0)

\* f"{n:04d}"
Pad4(n) ==
    IF n < 10 THEN "000" \o ToString(n)
    ELSE IF n < 100 THEN "00" \o ToString(n)
    ELSE IF n < 1000 THEN "0" \o ToString(n)
    ELSE ToString(n)

\* urlparse(url).path: what follows the scheme and the //authority, up to the
\* query or the fragment.  Total here: the ValueError urlparse raises on a
\* malformed bracketed authority is outside the sample documents.
UrlPath(url) ==
    LET colon  == FindAny(url, {":"}, 1)
        slash  == FindAny(url, {"/", "?", "#"}, 1)
        rest   == IF colon > 0 /\ (slash = 0 \/ colon < slash)
                  THEN Drop(url, colon) ELSE url
        noauth == IF StartsWith(rest, "//")
                  THEN LET e == FindAny(rest, {"/", "?", "#"}, 3)
                       IN  IF e = 0 THEN "" ELSE Drop(rest, e - 1)
                  ELSE rest
        cut    == FindAny(noauth, {"?", "#"}, 1)
    IN  IF cut = 0 THEN noauth ELSE SubSeq(noauth, 1, cut - 1)

\* the index of the first character of s, from i on, that is not a dot
RECURSIVE SkipDots(_, _)
SkipDots(s, i) ==
    IF i <= Len(s) /\ Char(s, i) = "." THEN SkipDots(s, i + 1) ELSE i

\* os.path.splitext(p)[-1]: from the last dot of the last path component to
\* the end, the leading dots of the component not counting; "" without one
SplitExt(p) ==
    LET sep  == RFind(p, "/", Len(p))
        name == Drop(p, sep)
        lead == SkipDots(name, 1)
        dot  == RFind(name, ".", Len(name))
    IN  IF dot > 0 /\ lead < dot THEN Drop(name, dot - 1) ELSE ""

\* ------------------------------------------------------------------ inputs
base_url == "https://bulbapedia.bulbagarden.net"

bucket_name == "pokemon-scraper-binks"

\* The first <a href> of a row, NoLink when the row has none.
NoLink == [text |-> None, href |-> None]

\* Rows of a listing table: the texts of the td cells and the first link.
Rows ==
    { [cells |-> <<"Ndex", "Name">>,          link |-> NoLink],
      [cells |-> <<" ", "Foo", "Type">>,      link |-> [text |-> " Foo ", href |-> "/wiki/Foo"]],
      [cells |-> <<"#0004", "Foo", "Type">>,  link |-> NoLink],
      [cells |-> <<" #0004 ", "Foo", "Type">>, link |-> [text |-> " Foo ", href |-> "/wiki/Foo"]] }

\* What an HTTP GET can answer: the transport raises, or a response comes
\* back with a status.
Responses == {"transport_error", "status_404", "status_200"}

\* The first <img> of an info panel: NoImg when the panel has none, src = ""
\* when the element has no src attribute.
NoImg == [tag |-> FALSE, src |-> ""]

Page(resp, parses, panel, img, links) ==
    [resp |-> resp, parses |-> parses, panel |-> panel, img |-> img, links |-> links]

\* Detail pages: the answer to the GET, whether the document parses, whether
\* a table of class infobox|roundy exists, its first <img> and the texts of
\* its type links in document order.
DetailPages ==
    { Page("transport_error", TRUE, FALSE, NoImg, <<>>),
      Page("status_404", TRUE, FALSE, NoImg, <<>>),
      Page("status_200", FALSE, FALSE, NoImg, <<>>),
      Page("status_200", TRUE, FALSE, NoImg, <<>>),
      Page("status_200", TRUE, TRUE, NoImg, <<"Fire">>),
      Page("status_200", TRUE, TRUE, [tag |-> TRUE, src |-> ""], <<>>),
      Page("status_200", TRUE, TRUE, [tag |-> TRUE, src |-> "//cdn.example/a.png"],
           <<"Fire", " water ">>),
      Page("status_200", TRUE, TRUE, [tag |-> TRUE, src |-> "https://cdn.example/b.JPG?v=1"],
           <<"", " ">>),
      Page("status_200", TRUE, TRUE, [tag |-> TRUE, src |-> "https://cdn.example/c"],
           <<" ", "Water", "Fire">>) }

\* Outcomes of s3.put_object
PutOutcomes == {"ok", "no_credentials", "client_error"}

\* Values of the limit argument
Limits == (0 - 1)..MaxLimit

RECURSIVE Sum(_)
Sum(q) == IF q = <<>> THEN 0 ELSE Head(q) + Sum(Tail(q))

\* The tables selected from the listing page, each given by its number of
\* tr rows: no table, one table, or two tables of which either may be empty.
Listings ==
    { q \in {<<>>} \cup { <<a>> : a \in 0..MaxRows }
              \cup { <<a, b>> : a \in 0..MaxRows, b \in 0..MaxRows } :
        Sum(q) <= MaxRows }

\* ----------------------------------------------------------------- methods
\* WebScraper.fetch_page: session.get raises on a transport failure,
\* raise_for_status on a non-success status, BeautifulSoup on a document it
\* rejects; nothing is caught here.
fetch_page(resp, parses) ==
    [raised |-> resp # "status_200" \/ ~parses]

\* requests.get(url, headers).content: only the transport raises; the body of
\* a response is returned whatever its status.
requests_get(resp) ==
    [raised  |-> resp = "transport_error",
     content |-> IF resp = "status_200" THEN "<image bytes>" ELSE "<error body>"]

NoCreature == [index |-> NoMatch, name |-> None, url |-> None]

\* WebScraper.extract_creature_data
extract_creature_data(row) ==
    IF Len(row.cells) < 3 THEN NoCreature
    ELSE IF DigitRun(Strip(row.cells[1])) = NoMatch THEN NoCreature
    ELSE IF row.link = NoLink THEN NoCreature
    ELSE [index |-> DigitRun(Strip(row.cells[1])),
          name  |-> Strip(row.link.text),
          url   |-> base_url \o row.link.href]

\* the list comprehension of find_creature_image_and_types
RECURSIVE TypeTexts(_)
TypeTexts(links) ==
    IF links = <<>> THEN <<>>
    ELSE IF Strip(Head(links)) # ""
         THEN <<Lower(Strip(Head(links)))>> \o TypeTexts(Tail(links))
         ELSE TypeTexts(Tail(links))

\* the list as it is, without the default
OrUnknown_NoDefault(types) == types

\* types or ["unknown"]
OrUnknown(types) == IF types = <<>> THEN <<"unknown">> ELSE types

\* find_creature_image_and_types without its try / except: a failure of
\* fetch_page leaves the method
find_creature_image_and_types_NoTry(page) ==
    IF fetch_page(page.resp, page.parses).raised
    THEN [raised |-> TRUE, image_url |-> None, types |-> <<>>]
    ELSE IF ~page.panel
    THEN [raised |-> FALSE, image_url |-> None, types |-> <<>>]
    ELSE [raised    |-> FALSE,
          image_url |-> IF page.img.tag /\ page.img.src # ""
                        THEN IF StartsWith(page.img.src, "//")
                             THEN "https:" \o page.img.src
                             ELSE page.img.src
                        ELSE None,
          types     |-> OrUnknown(TypeTexts(page.links))]

\* find_creature_image_and_types with except returning an empty list
find_creature_image_and_types_EmptyOnError(page) ==
    IF fetch_page(page.resp, page.parses).raised
    THEN [raised |-> FALSE, image_url |-> None, types |-> <<>>]
    ELSE IF ~page.panel
    THEN [raised |-> FALSE, image_url |-> None, types |-> <<>>]
    ELSE [raised    |-> FALSE,
          image_url |-> IF page.img.tag /\ page.img.src # ""
                        THEN IF StartsWith(page.img.src, "//")
                             THEN "https:" \o page.img.src
                             ELSE page.img.src
                        ELSE None,
          types     |-> OrUnknown(TypeTexts(page.links))]

\* DataCollector.find_creature_image_and_types: the whole body is inside
\* try / except Exception.
find_creature_image_and_types(page) ==
    IF fetch_page(page.resp, page.parses).raised
    THEN [raised |-> FALSE, image_url |-> None, types |-> <<"unknown">>]
    ELSE IF ~page.panel
    THEN [raised |-> FALSE, image_url |-> None, types |-> <<>>]
    ELSE [raised    |-> FALSE,
          image_url |-> IF page.img.tag /\ page.img.src # ""
                        THEN IF StartsWith(page.img.src, "//")
                             THEN "https:" \o page.img.src
                             ELSE page.img.src
                        ELSE None,
          types     |-> OrUnknown(TypeTexts(page.links))]

ContentType(ext) ==
    CASE ext = ".jpg"  -> "image/jpeg"
      [] ext = ".jpeg" -> "image/jpeg"
      [] ext = ".png"  -> "image/png"
      [] ext = ".gif"  -> "image/gif"
      [] OTHER         -> "image/png"

NoRequest == [Key |-> None, Body |-> None, ACL |-> None, ContentType |-> None]

\* S3Uploader.upload_image: put_object is called once; both except clauses
\* log one error and return None.
upload_image(outcome, image_data, filename, prefix) ==
    LET s3_key == prefix \o filename
    IN  [raised  |-> FALSE,
         request |-> [Key |-> s3_key, Body |-> image_data, ACL |-> "public-read",
                      ContentType |-> ContentType(Lower(SplitExt(filename)))],
         url     |-> IF outcome = "ok"
                     THEN "https://" \o bucket_name \o ".s3.amazonaws.com/" \o s3_key
                     ELSE None,
         errors  |-> IF outcome = "ok" THEN 0 ELSE 1]

\* ------------------------------------------------------------------- state
VARIABLES
    limit,      \* the argument of collect_data
    tables,     \* the selected tables of the listing, each its number of rows
    pc,         \* the statement collect_data is at
    ti, ri,     \* the table and the row the two for loops are at
    count,      \* the local count
    creature,   \* the local creature
    image_url,  \* the local image_url
    types,      \* the local types
    s3_url,     \* the local s3_url
    put,        \* the last request handed to s3.put_object
    puts,       \* the number of calls of upload_image so far
    urls,       \* the number of calls of upload_image that returned a URL
    log_limit,  \* the number of "Limite atteinte." lines logged
    visited,    \* the rows handed to extract_creature_data, as <<table, row>>
    obs,        \* what the current row met so far
    clean,      \* every row left so far was a data row with an image, a 200
                \* download and a successful put
    listing     \* the outcome of the listing fetch

vars == <<limit, tables, pc, ti, ri, count, creature, image_url, types, s3_url,
          put, puts, urls, log_limit, visited, obs, clean, listing>>

\* The record of one row: whether it was a data row, the kind of its detail
\* page, the answer to the image GET, the outcome of the put, and whether a
\* warning was logged, an error was logged, the delay was slept and count
\* was incremented.
NoObs == [data |-> "none", detail |-> "none", get |-> "none", put |-> "none",
          warned |-> FALSE, errors |-> 0, slept |-> FALSE, inc |-> FALSE]

\* What a detail page is, for the record of the row.
PageKind(page) ==
    IF fetch_page(page.resp, page.parses).raised THEN "error"
    ELSE IF ~page.panel THEN "no_panel"
    ELSE IF TypeTexts(page.links) = <<>> THEN "no_types"
    ELSE "types"

Init ==
    /\ limit \in Limits
    /\ tables \in Listings
    /\ pc = "fetch"
    /\ ti = 0
    /\ ri = 0
    /\ count = 0
    /\ creature = NoCreature
    /\ image_url = None
    /\ types = <<>>
    /\ s3_url = None
    /\ put = NoRequest
    /\ puts = 0
    /\ urls = 0
    /\ log_limit = 0
    /\ visited = <<>>
    /\ obs = NoObs
    /\ clean = TRUE
    /\ listing = "none"

\* ------------------------------------------------------ collect_data steps
\* if count > limit
LimitReached_Strict(c, l) == c > l

\* if count >= limit
LimitReached(c, l) == c >= l

\* if image_url == ""
NotFound_EmptyOnly(url) == url = ""

\* if not image_url
NotFound(url) == url = None \/ url = ""

\* the inner for loop stopping one row early
MoreRows_SkipLast(t, r) == r + 1 < tables[t]

\* the inner for loop has a next row
MoreRows(t, r) == r < tables[t]

\* continue replaced by falling through to the delay
AfterContinue_Sleep == "sleep"

\* where continue leads: the head of the inner for loop
AfterContinue == "rows"

\* count += 1 outside the if
CountAfterUpload_Always(c, url) == c + 1

\* if s3_url: count += 1
CountAfterUpload(c, url) == IF url # None /\ url # "" THEN c + 1 ELSE c

\* soup = self.scraper.fetch_page(self.list_url); tables = soup.find_all(...);
\* count = 0.  An exception of fetch_page leaves collect_data.
FetchListing ==
    /\ pc = "fetch"
    /\ \E resp \in Responses, parses \in BOOLEAN :
          IF fetch_page(resp, parses).raised
          THEN /\ pc' = "raised"
               /\ listing' = "failed"
               /\ count' = count
          ELSE /\ pc' = "tables"
               /\ listing' = "ok"
               /\ count' = 0
    /\ UNCHANGED <<limit, tables, ti, ri, creature, image_url, types, s3_url,
                   put, puts, urls, log_limit, visited, obs, clean>>

\* for table in tables
NextTable ==
    /\ pc = "tables"
    /\ IF ti < Len(tables)
       THEN /\ ti' = ti + 1
            /\ ri' = 0
            /\ pc' = "rows"
       ELSE /\ pc' = "returned"
            /\ UNCHANGED <<ti, ri>>
    /\ UNCHANGED <<limit, tables, count, creature, image_url, types, s3_url,
                   put, puts, urls, log_limit, visited, obs, clean, listing>>

\* for row in table.find_all("tr").  The names the body binds (creature,
\* image_url, types, s3_url) are bound again before they are read: the step
\* to the next row forgets them, and opens the record of the new row.
NextRow ==
    /\ pc = "rows"
    /\ IF MoreRows(ti, ri)
       THEN /\ ri' = ri + 1
            /\ pc' = "check"
            /\ creature' = NoCreature
            /\ image_url' = None
            /\ types' = <<>>
            /\ s3_url' = None
            /\ put' = NoRequest
            /\ obs' = NoObs
       ELSE /\ pc' = "tables"
            /\ UNCHANGED <<ri, creature, image_url, types, s3_url, put, obs>>
    /\ UNCHANGED <<limit, tables, ti, count, puts, urls, log_limit, visited,
                   clean, listing>>

\* if count >= limit: logging.info("Limite atteinte."); return
CheckLimit ==
    /\ pc = "check"
    /\ IF LimitReached(count, limit)
       THEN /\ log_limit' = log_limit + 1
            /\ pc' = "returned"
            /\ UNCHANGED visited
       ELSE /\ pc' = "extract"
            /\ visited' = Append(visited, <<ti, ri>>)
            /\ UNCHANGED log_limit
    /\ UNCHANGED <<limit, tables, ti, ri, count, creature, image_url, types,
                   s3_url, put, puts, urls, obs, clean, listing>>

\* creature = self.scraper.extract_creature_data(row)
\* if not creature: continue
Extract ==
    /\ pc = "extract"
    /\ \E row \in Rows :
          /\ creature' = extract_creature_data(row)
          /\ IF creature' = NoCreature
             THEN /\ pc' = AfterContinue
                  /\ obs' = [obs EXCEPT !.data = "no"]
                  /\ clean' = FALSE
             ELSE /\ pc' = "detail"
                  /\ obs' = [obs EXCEPT !.data = "yes"]
                  /\ clean' = clean
    /\ UNCHANGED <<limit, tables, ti, ri, count, image_url, types, s3_url, put,
                   puts, urls, log_limit, visited, listing>>

\* logging.info("Processing ...")
\* image_url, types = self.find_creature_image_and_types(creature.url)
\* if not image_url: logging.warning(...); continue
\* An exception of find_creature_image_and_types would leave collect_data.
Detail ==
    /\ pc = "detail"
    /\ \E page \in DetailPages :
          LET r == find_creature_image_and_types(page)
          IN  IF r.raised
              THEN /\ pc' = "raised"
                   /\ obs' = [obs EXCEPT !.detail = PageKind(page)]
                   /\ UNCHANGED <<image_url, types, clean>>
              ELSE /\ image_url' = r.image_url
                   /\ types' = r.types
                   /\ IF NotFound(r.image_url)
                      THEN /\ obs' = [obs EXCEPT !.detail = PageKind(page),
                                                 !.warned = TRUE]
                           /\ pc' = AfterContinue
                           /\ clean' = FALSE
                      ELSE /\ obs' = [obs EXCEPT !.detail = PageKind(page)]
                           /\ pc' = "archive"
                           /\ clean' = clean
    /\ UNCHANGED <<limit, tables, ti, ri, count, creature, s3_url, put, puts,
                   urls, log_limit, visited, listing>>

\* prefix = f"images/{types[0]}/"
Prefix(ts) == "images/" \o ts[1] \o "/"

\* ext = os.path.splitext(urlparse(image_url).path)[-1] or ".png"
Ext(url) == IF SplitExt(UrlPath(url)) = "" THEN ".png" ELSE SplitExt(UrlPath(url))

\* filename = f"{creature.index:04d}_{creature.name}{ext}"
Filename(c, url) == Pad4(c.index) \o "_" \o c.name \o Ext(url)

\* prefix, ext, filename; then, inside try / except Exception:
\*   image_data = requests.get(image_url, headers).content
\*   s3_url = self.uploader.upload_image(image_data, filename, prefix)
\*   if s3_url: logging.info(...); count += 1
\* except: logging.error("Failed to download ...")
\* types[0] of an empty list raises IndexError, outside the try.
Archive ==
    /\ pc = "archive"
    /\ IF types = <<>>
       THEN /\ pc' = "raised"
            /\ UNCHANGED <<count, s3_url, put, puts, urls, obs, clean>>
       ELSE \E resp \in Responses, outcome \in PutOutcomes :
              LET g == requests_get(resp)
                  u == upload_image(outcome, g.content,
                                    Filename(creature, image_url), Prefix(types))
              IN  /\ pc' = "sleep"
                  /\ clean' = (clean /\ resp = "status_200" /\ outcome = "ok")
                  /\ IF g.raised
                     THEN /\ obs' = [obs EXCEPT !.get = resp, !.errors = @ + 1]
                          /\ UNCHANGED <<count, s3_url, put, puts, urls>>
                     ELSE IF u.raised
                     THEN /\ obs' = [obs EXCEPT !.get = resp, !.put = outcome,
                                                !.errors = @ + 1]
                          /\ put' = u.request
                          /\ puts' = puts + 1
                          /\ UNCHANGED <<count, s3_url, urls>>
                     ELSE /\ put' = u.request
                          /\ puts' = puts + 1
                          /\ s3_url' = u.url
                          /\ urls' = IF u.url # None THEN urls + 1 ELSE urls
                          /\ count' = CountAfterUpload(count, u.url)
                          /\ obs' = [obs EXCEPT !.get = resp, !.put = outcome,
                                                !.errors = @ + u.errors,
                                                !.inc = count' # count]
    /\ UNCHANGED <<limit, tables, ti, ri, creature, image_url, types, log_limit,
                   visited, listing>>

\* time.sleep(self.scraper.delay)
Sleep ==
    /\ pc = "sleep"
    /\ obs' = [obs EXCEPT !.slept = TRUE]
    /\ pc' = "rows"
    /\ UNCHANGED <<limit, tables, ti, ri, count, creature, image_url, types,
                   s3_url, put, puts, urls, log_limit, visited, clean, listing>>

Next ==
    \/ FetchListing
    \/ NextTable
    \/ NextRow
    \/ CheckLimit
    \/ Extract
    \/ Detail
    \/ Archive
    \/ Sleep

Spec == Init /\ [][Next]_vars

\* collect_data runs on one thread and only blocks in calls that return: a
\* step that can be taken is taken.
FairSpec == Spec /\ WF_vars(Next)

\* ------------------------------------------------------------- properties
Max(a, b) == IF a >= b THEN a ELSE b

\* The rows of the listing in document order, as <<table, row>>.
RECURSIVE Doc(_)
Doc(t) ==
    IF t > Len(tables) THEN <<>>
    ELSE [r \in 1..tables[t] |-> <<t, r>>] \o Doc(t + 1)

DocOrder == Doc(1)

BetweenRows == pc \in {"rows", "tables", "returned"}

InRow == pc \in {"extract", "detail", "archive"}

PutFailures == {"no_credentials", "client_error"}

\* C1: the limit is global.  count never exceeds max(limit, 0); no row of any
\* table is handed to extraction, detail fetch, download or upload once
\* count >= limit; and a run with limit = 2 over a listing of 5 rows that
\* are all valid and uploadable ends with exactly 2 upload attempts, both
\* successful.
C1_GlobalLimit ==
    /\ count <= Max(limit, 0)
    /\ (InRow => count < limit)
    /\ urls <= Max(limit, 0)
    /\ ((pc = "returned" /\ limit = 2 /\ Sum(tables) = 5 /\ clean)
           => (puts = 2 /\ urls = 2 /\ count = 2 /\ Len(visited) = 2))

\* C1 witness: limit = 2, five valid rows in two tables, the limit reached
\* at the end of the first table and the run ended at the first row of the
\* second.
C1_Witness ==
    /\ pc = "returned"
    /\ limit = 2
    /\ tables = <<2, 3>>
    /\ clean
    /\ puts = 2
    /\ count = 2
    /\ ti = 2

C3_DetailFailureAbsorbed ==
    obs.detail = "error" =>
        /\ BetweenRows
        /\ image_url = None
        /\ types = <<"unknown">>
        /\ obs.warned
        /\ obs.get = "none"
        /\ obs.put = "none"
        /\ put = NoRequest
        /\ ~obs.inc
        /\ ~obs.slept

\* C3 witness: the detail fetch of a row failed and the loop is about to go
\* on with a further row.
C3_Witness ==
    /\ obs.detail = "error"
    /\ pc = "rows"
    /\ ri < tables[ti]
    /\ count < limit

\* C4: when the image GET fails (the transport raises, or the answer has a
\* non-success status), an error is logged, nothing is put to storage and
\* count is not incremented for that row.
C4_DownloadFailureSkips ==
    (pc = "sleep" /\ obs.get \in {"transport_error", "status_404"}) =>
        /\ obs.errors >= 1
        /\ obs.put = "none"
        /\ put = NoRequest
        /\ ~obs.inc

\* C5: count starts at 0, never decreases, grows by at most 1 in a step and
\* only in the step in which upload_image returned a URL; a put that fails
\* leaves it alone and the loop goes on; count is the number of URLs
\* returned so far.
C5_CountsConfirmedUploads ==
    /\ [](count = urls /\ count >= 0)
    /\ [](pc = "sleep" => (obs.inc <=> (obs.put = "ok" /\ s3_url # None)))
    /\ [](obs.put \in PutFailures => (~obs.inc /\ s3_url = None /\ pc # "raised"))
    /\ [][ \/ count' = count
           \/ (count' = count + 1 /\ pc = "archive" /\ s3_url' # None /\ obs'.put = "ok")
         ]_vars

\* C5 witness: after one confirmed upload, a put without credentials left
\* count at 1.
C5_Witness ==
    /\ pc = "sleep"
    /\ obs.put = "no_credentials"
    /\ count = 1
    /\ urls = 1
    /\ puts = 2

C8_LimitMessageLogged ==
    (pc = "returned" /\ limit >= 1 /\ count >= limit) => log_limit >= 1

\* C9, as claimed: after detail extraction the tags are never empty, and are
\* ["unknown"] when no tag was found (failure, no info panel, panel without
\* type links).
C9_TagsNeverEmpty ==
    obs.detail # "none" =>
        /\ types # <<>>
        /\ (obs.detail \in {"error", "no_panel", "no_types"} => types = <<"unknown">>)

\* C9, amended: after detail extraction the tags are empty exactly when the
\* page has no info panel (and then no image URL is returned); on a fetch or
\* parse failure and on a panel without type links they are ["unknown"]; on
\* a panel with type links they are the non-empty lower-cased texts.
C9_TagsEmptyOnlyWithoutPanel ==
    obs.detail # "none" =>
        /\ (types = <<>> <=> obs.detail = "no_panel")
        /\ (obs.detail = "no_panel" => image_url = None)
        /\ (obs.detail \in {"error", "no_types"} => types = <<"unknown">>)
        /\ (obs.detail = "types" =>
               \A k \in 1..Len(types) : types[k] # "" /\ types[k] = Lower(Strip(types[k])))

\* C9 witness: a panel with an image and no usable type link gave
\* ["unknown"].
C9_Witness ==
    /\ obs.detail = "no_types"
    /\ types = <<"unknown">>
    /\ image_url # None

\* C10: where the prefix is computed the tags have a first element: an
\* image URL never comes with an empty tag list, and every put uses the key
\* images/<first tag>/<filename>.
C10_PrefixWellDefined ==
    /\ (pc = "archive" => (image_url # None /\ image_url # "" /\ Len(types) >= 1))
    /\ ((obs.detail # "none" /\ image_url # None) => Len(types) >= 1)
    /\ (obs.put # "none" =>
           put.Key = "images/" \o Head(types) \o "/" \o Filename(creature, image_url))

\* C10 witness: a put of a row with two tags used the first one.
C10_Witness ==
    /\ obs.put = "ok"
    /\ types = <<"fire", "water">>
    /\ put.Key = "images/fire/0004_Foo.png"

====
